---- MODULE Spec2Model ----
(***************************************************************************)
(* A model of the two containers of extendible_hash_table.cpp: the         *)
(* ExtendibleHashTable<int,int> (directory of shared buckets, split on a   *)
(* full bucket) and the LRUKReplacer (frame histories, evictable flags,    *)
(* victim selection).  Shared bucket objects live in an arena (buckets)    *)
(* and the directory holds arena indices, so aliasing of directory slots   *)
(* is pointer equality as in the code.                                     *)
(***************************************************************************)
EXTENDS Integers, Sequences, FiniteSets, TLC

VARIABLES
    bucket_size_,        \* ExtendibleHashTable::bucket_size_
    global_depth_,       \* ExtendibleHashTable::global_depth_
    num_buckets_,        \* ExtendibleHashTable::num_buckets_
    dir_,                \* ExtendibleHashTable::dir_ : slot i is dir_[i+1], an index into buckets
    buckets,             \* the Bucket objects the shared_ptrs refer to: [depth_, list_]
    shadow,              \* reference map: key -> last inserted value, or None
    ht_ret,              \* the last hash-table call and what it returned
    k_,                  \* LRUKReplacer::k_
    frames_,             \* LRUKReplacer::frames_ : frame id -> [history_, is_evictable_, k_distance_]
    current_timestamp_,  \* LRUKReplacer::current_timestamp_
    curr_size_,          \* LRUKReplacer::curr_size_
    rp_ret,              \* the last replacer call, its outcome and the state it was called in
    pc,                  \* per thread: the statement it is at
    loc,                 \* per thread: the call's arguments and locals
    latch_,              \* the mutex: the set of threads inside a scoped_lock (empty when free)
    th_ret,              \* the call that returned last: what it returned, what the serial execution returns
    ser,                 \* the table of the serial execution, in the order the mutex was acquired
    access_log           \* every timestamp a RecordAccess pushed, in the order pushed

htvars == <<bucket_size_, global_depth_, num_buckets_, dir_, buckets, shadow, ht_ret>>
rpvars == <<k_, frames_, current_timestamp_, curr_size_, rp_ret>>
thvars == <<pc, loc, latch_, th_ret, ser, access_log>>
vars == <<bucket_size_, global_depth_, num_buckets_, dir_, buckets, shadow, ht_ret,
          k_, frames_, current_timestamp_, curr_size_, rp_ret, pc, loc, latch_,
          th_ret, ser, access_log>>

\* ---------------------------------------------------------------- bounds
MaxKey == 3
MaxVal == 2
MaxBucketSize == 2

Keys == 0..MaxKey
Vals == 1..MaxVal
None == 0

\* ------------------------------------------------------------ arithmetic
RECURSIVE Pow2(_)
Pow2(n) == IF n = 0 THEN 1 ELSE 2 * Pow2(n - 1)

\* a & b on non-negative integers
RECURSIVE BitAnd(_, _)
BitAnd(a, b) ==
    IF a = 0 \/ b = 0 THEN 0
    ELSE (a % 2) * (b % 2) + 2 * BitAnd(a \div 2, b \div 2)

\* std::hash<int> of the table's int instantiation: the value itself
Hash(key) == key

\* ------------------------------------------------------------------ Bucket
NewBucket(depth) == [depth_ |-> depth, list_ |-> <<>>]

IsFull(list, size) == Len(list) = size

PosOf(list, key) ==
    LET hits == {i \in 1..Len(list) : list[i][1] = key}
    IN  IF hits = {} THEN 0 ELSE CHOOSE i \in hits : \A j \in hits : i <= j

\* Bucket::Find: the value of the first pair with the key, None when absent
BucketFind(list, key) ==
    LET p == PosOf(list, key) IN IF p = 0 THEN None ELSE list[p][2]

\* Bucket::Remove: erase the first pair with the key
BucketRemove(list, key) ==
    LET p == PosOf(list, key)
    IN  IF p = 0 THEN [ok |-> FALSE, list |-> list]
        ELSE [ok |-> TRUE,
              list |-> SubSeq(list, 1, p - 1) \o SubSeq(list, p + 1, Len(list))]

\* Bucket::Insert overwriting by erasing the old pair and appending the new one
BucketInsertReappend(list, key, value, size) ==
    LET p == PosOf(list, key)
        erased == SubSeq(list, 1, p - 1) \o SubSeq(list, p + 1, Len(list))
    IN  IF p # 0 THEN [ok |-> TRUE, list |-> Append(erased, <<key, value>>)]
        ELSE IF Len(list) = size THEN [ok |-> FALSE, list |-> list]
        ELSE [ok |-> TRUE, list |-> Append(list, <<key, value>>)]

\* Bucket::Insert that never refuses: a full bucket takes the pair as well
BucketInsertOverfull(list, key, value, size) ==
    LET p == PosOf(list, key)
    IN  IF p # 0 THEN [ok |-> TRUE, list |-> [list EXCEPT ![p] = <<key, value>>]]
        ELSE [ok |-> TRUE, list |-> Append(list, <<key, value>>)]

\* Bucket::Insert without the second scan: a bucket with room appends without looking
BucketInsertNoScan(list, key, value, size) ==
    LET p == PosOf(list, key)
    IN  IF Len(list) = size
        THEN IF p # 0
             THEN [ok |-> TRUE, list |-> [list EXCEPT ![p] = <<key, value>>]]
             ELSE [ok |-> FALSE, list |-> list]
        ELSE [ok |-> TRUE, list |-> Append(list, <<key, value>>)]

\* Bucket::Insert: overwrite in place (also when full), else append unless full
BucketInsert(list, key, value, size) ==
    LET p == PosOf(list, key)
    IN  IF IsFull(list, size)
        THEN IF p # 0
             THEN [ok |-> TRUE, list |-> [list EXCEPT ![p] = <<key, value>>]]
             ELSE [ok |-> FALSE, list |-> list]
        ELSE IF p # 0
             THEN [ok |-> TRUE, list |-> [list EXCEPT ![p] = <<key, value>>]]
             ELSE [ok |-> TRUE, list |-> Append(list, <<key, value>>)]

\* ------------------------------------------------------- ExtendibleHashTable
\* A table value: the fields Insert reads and writes.
Table == [global_depth_ |-> global_depth_, num_buckets_ |-> num_buckets_,
          dir_ |-> dir_, buckets |-> buckets]

IndexOf(key, depth) == BitAnd(Hash(key), Pow2(depth) - 1)

\* the doubling test passing also for a bucket shallower than the directory
NeedsDoublingAlways(t, target) == t.buckets[target].depth_ <= t.global_depth_

\* Insert, lines 95-103: double the directory when the target's depth is the global depth
NeedsDoubling(t, target) == t.buckets[target].depth_ = t.global_depth_

DoubleDirectory(t) ==
    [t EXCEPT !.dir_ = t.dir_ \o t.dir_, !.global_depth_ = t.global_depth_ + 1]

\* a split whose new bucket is made at the old local depth
SplitBucketShallowNew(t, target) ==
    LET local_depth == t.buckets[target].depth_
    IN  [t EXCEPT !.buckets =
            Append([t.buckets EXCEPT ![target].depth_ = local_depth + 1],
                   NewBucket(local_depth))]

\* Insert, lines 106-108: the new bucket, and the target one level deeper
SplitBucket(t, target) ==
    LET local_depth == t.buckets[target].depth_
    IN  [t EXCEPT !.buckets =
            Append([t.buckets EXCEPT ![target].depth_ = local_depth + 1],
                   NewBucket(local_depth + 1))]

\* Insert, lines 111-117: slots of the target whose newly significant bit is set go to the new bucket
RedistributeDirectory(t, index, local_depth, target, new_bucket) ==
    LET mask == Pow2(local_depth)
        directory_index == BitAnd(index, mask - 1)
    IN  [t EXCEPT !.dir_ =
            [s \in 1..Len(t.dir_) |->
                IF BitAnd(s - 1, mask - 1) = directory_index /\ t.dir_[s] = target
                THEN (IF BitAnd(s - 1, mask) = 0 THEN target ELSE new_bucket)
                ELSE t.dir_[s]]]

\* Insert, lines 120-131: walk the target's items, moving those whose slot left the target
RECURSIVE MoveItems(_, _, _, _, _, _)
MoveItems(items, kept, moved, t, target, size) ==
    IF items = <<>> THEN [kept |-> kept, moved |-> moved]
    ELSE LET it == Head(items)
             new_index == IndexOf(it[1], t.global_depth_)
         IN  IF t.dir_[new_index + 1] # target
             THEN MoveItems(Tail(items), kept,
                            BucketInsert(moved, it[1], it[2], size).list, t, target, size)
             ELSE MoveItems(Tail(items), Append(kept, it), moved, t, target, size)

\* a split that moves every item of the old bucket to the new one
RedistributeItemsAll(t, target, new_bucket, size) ==
    [t EXCEPT !.buckets = [t.buckets EXCEPT ![target].list_ = <<>>,
                                            ![new_bucket].list_ = t.buckets[target].list_]]

\* a split that erases the items that left the old bucket without storing them in the new one
RedistributeItemsDrop(t, target, new_bucket, size) ==
    LET r == MoveItems(t.buckets[target].list_, <<>>, t.buckets[new_bucket].list_,
                       t, target, size)
    IN  [t EXCEPT !.buckets = [t.buckets EXCEPT ![target].list_ = r.kept]]

RedistributeItems(t, target, new_bucket, size) ==
    LET r == MoveItems(t.buckets[target].list_, <<>>, t.buckets[new_bucket].list_,
                       t, target, size)
    IN  [t EXCEPT !.buckets = [t.buckets EXCEPT ![target].list_ = r.kept,
                                                ![new_bucket].list_ = r.moved]]

\* a split that forgets num_buckets_++
IncrementNumBucketsNone(t) == t

IncrementNumBuckets(t) == [t EXCEPT !.num_buckets_ = t.num_buckets_ + 1]

\* One pass of the loop body after the target refused the pair, lines 94-132
SplitOnce(t, key, size) ==
    LET index == IndexOf(key, t.global_depth_)
        target == t.dir_[index + 1]
        local_depth == t.buckets[target].depth_
        t1 == IF NeedsDoubling(t, target) THEN DoubleDirectory(t) ELSE t
        t2 == SplitBucket(t1, target)
        new_bucket == Len(t2.buckets)
        t3 == RedistributeDirectory(t2, index, local_depth, target, new_bucket)
        t4 == RedistributeItems(t3, target, new_bucket, size)
    IN  IncrementNumBuckets(t4)

\* ExtendibleHashTable::Insert, lines 84-134: loop until the target bucket accepts the pair
RECURSIVE InsertLoop(_, _, _, _)
InsertLoop(t, key, value, size) ==
    LET index == IndexOf(key, t.global_depth_)
        target == t.dir_[index + 1]
        r == BucketInsert(t.buckets[target].list_, key, value, size)
    IN  IF r.ok THEN [t EXCEPT !.buckets[target].list_ = r.list]
        ELSE InsertLoop(SplitOnce(t, key, size), key, value, size)

\* Insert, lines 86-133, iteration by iteration: the table it returns with and the
\* number of passes that did not return; gives up (done false) after fuel passes
RECURSIVE InsertRun(_, _, _, _, _)
InsertRun(t, key, value, size, fuel) ==
    LET index == IndexOf(key, t.global_depth_)
        target == t.dir_[index + 1]
        r == BucketInsert(t.buckets[target].list_, key, value, size)
    IN  IF r.ok
        THEN [done |-> TRUE, splits |-> 0,
              table |-> [t EXCEPT !.buckets[target].list_ = r.list]]
        ELSE IF fuel = 0
        THEN [done |-> FALSE, splits |-> 0, table |-> t]
        ELSE LET rest == InsertRun(SplitOnce(t, key, size), key, value, size, fuel - 1)
             IN  [rest EXCEPT !.splits = rest.splits + 1]

\* ExtendibleHashTable::Find
TableFind(t, key) ==
    BucketFind(t.buckets[t.dir_[IndexOf(key, t.global_depth_) + 1]].list_, key)

\* ExtendibleHashTable::Remove
TableRemove(t, key) ==
    LET target == t.dir_[IndexOf(key, t.global_depth_) + 1]
        r == BucketRemove(t.buckets[target].list_, key)
    IN  [ok |-> r.ok, table |-> [t EXCEPT !.buckets[target].list_ = r.list]]

GetGlobalDepthInternal(t) == t.global_depth_
GetLocalDepthInternal(t, dir_index) == t.buckets[t.dir_[dir_index + 1]].depth_
GetNumBucketsInternal(t) == t.num_buckets_

\* ------------------------------------------------- hash table, one call per step
\* The constructor, lines 25-28: one bucket of depth 0 in a directory of one slot.
InitGlobalDepth == 0
InitNumBuckets == 1

SetTable(t) ==
    /\ global_depth_' = t.global_depth_
    /\ num_buckets_' = t.num_buckets_
    /\ dir_' = t.dir_
    /\ buckets' = t.buckets

TargetOf(t, key) == t.dir_[IndexOf(key, t.global_depth_) + 1]

\* what a mutating call reports: whether its key was present and the key's bucket
\* full when called, and by how much num_buckets_ and global_depth_ grew
HTRet(op, present, full, t) ==
    [op |-> op, present |-> present, full |-> full,
     splits |-> t.num_buckets_ - num_buckets_,
     doublings |-> t.global_depth_ - global_depth_]

Insert(key, value) ==
    LET t == InsertLoop(Table, key, value, bucket_size_)
    IN  /\ SetTable(t)
        /\ shadow' = [shadow EXCEPT ![key] = value]
        /\ ht_ret' = HTRet("Insert", TableFind(Table, key) # None,
                           IsFull(buckets[TargetOf(Table, key)].list_, bucket_size_), t)
        /\ UNCHANGED <<bucket_size_, rpvars, thvars>>

\* Find, GetGlobalDepth, GetLocalDepth and GetNumBuckets only read: what they return
\* is TableFind(Table, key), GetGlobalDepthInternal(Table), ... of the state they run in
Find(key) ==
    /\ TableFind(Table, key) \in Vals \cup {None}
    /\ UNCHANGED vars

Remove(key) ==
    LET r == TableRemove(Table, key)
    IN  /\ SetTable(r.table)
        /\ shadow' = [shadow EXCEPT ![key] = None]
        /\ ht_ret' = HTRet("Remove", TableFind(Table, key) # None,
                           IsFull(buckets[TargetOf(Table, key)].list_, bucket_size_), r.table)
        /\ UNCHANGED <<bucket_size_, rpvars, thvars>>

GetGlobalDepth ==
    /\ GetGlobalDepthInternal(Table) \in Nat
    /\ UNCHANGED vars

GetLocalDepth(dir_index) ==
    /\ GetLocalDepthInternal(Table, dir_index) \in Nat
    /\ UNCHANGED vars

GetNumBuckets ==
    /\ GetNumBucketsInternal(Table) \in Nat
    /\ UNCHANGED vars

\* ------------------------------------------------------------- LRUKReplacer
NumFrames == 2
MaxK == 2
MaxTime == 3

\* std::numeric_limits<size_t>::max(), scaled to the checker's integers
SizeMax == 2147483647

\* a decrement that is forgotten
SizeDecNone(x) == x

\* an increment that is forgotten
SizeIncNone(x) == x

\* size_t arithmetic: wraps at the ends
SizeInc(x) == IF x = SizeMax THEN 0 ELSE x + 1
SizeDec(x) == IF x = 0 THEN SizeMax ELSE x - 1
SizeSub(a, b) == IF a >= b THEN a - b ELSE SizeMax - (b - a) + 1

replacer_size_ == NumFrames

\* frame_id_t is a signed int: callers may pass a negative id or one past the end
FrameArgs == (0 - 1)..replacer_size_

\* the Frame a first frames_[frame_id] creates
InitTimestamp == 0
InitCurrSize == 0
DefaultEvictable == FALSE
NewFrame == [history_ |-> <<>>, is_evictable_ |-> DefaultEvictable, k_distance_ |-> 0]

Tracked == DOMAIN frames_

\* CalcKDistance, lines 213-220
CalcKDistance(frame, k, now) ==
    IF Len(frame.history_) < k THEN SizeMax
    ELSE SizeSub(now, frame.history_[k])

\* UpdateKDistance, lines 222-224
UpdateKDistance(frame, k, now) ==
    [frame EXCEPT !.k_distance_ = CalcKDistance(frame, k, now)]

\* the range check off by one
InvalidFrameOffByOne(frame_id) == frame_id > replacer_size_

\* the range check of RecordAccess and SetEvictable, lines 270 and 289
InvalidFrame(frame_id) == frame_id >= replacer_size_

\* a push that never drops the oldest entry
PushedNoPop(frame, k, now) == [frame EXCEPT !.history_ = Append(frame.history_, now)]

\* RecordAccess, lines 275-280: push the timestamp, keep k entries
Pushed(frame, k, now) ==
    LET pushed == Append(frame.history_, now)
    IN  [frame EXCEPT !.history_ = IF Len(pushed) > k THEN Tail(pushed) ELSE pushed]

\* an access that also marks the frame evictable
AccessedUnpinned(frame, k, now) ==
    [UpdateKDistance(Pushed(frame, k, now), k, now) EXCEPT !.is_evictable_ = TRUE]

\* RecordAccess, lines 274-282: the frame after the access
Accessed(frame, k, now) == UpdateKDistance(Pushed(frame, k, now), k, now)

\* the scan without the tie-break: equal distances keep the frame met first
ScanStepNoTieBreak(st, fid, frame) ==
    IF ~frame.is_evictable_ THEN st
    ELSE IF \/ frame.k_distance_ > st.max_k_distance
            \/ st.victim_id = 0 - 1
         THEN [victim_id |-> fid,
               max_k_distance |-> frame.k_distance_,
               earliest_access |-> st.earliest_access]
         ELSE st

\* Evict, lines 245-254: one pass of the scan over frames_
ScanStep(st, fid, frame) ==
    IF ~frame.is_evictable_ THEN st
    ELSE IF \/ frame.k_distance_ > st.max_k_distance
            \/ /\ frame.k_distance_ = st.max_k_distance
               /\ frame.history_ # <<>>
               /\ Head(frame.history_) < st.earliest_access
         THEN [victim_id |-> fid,
               max_k_distance |-> frame.k_distance_,
               earliest_access |-> IF frame.history_ # <<>> THEN Head(frame.history_)
                                   ELSE st.earliest_access]
         ELSE st

RECURSIVE Scan(_, _, _)
Scan(st, order, frames) ==
    IF order = <<>> THEN st
    ELSE Scan(ScanStep(st, Head(order), frames[Head(order)]), Tail(order), frames)

\* Evict, lines 235-255: the victim the scan ends with, -1 when it chose none
Victim(frames, now, order) ==
    Scan([victim_id |-> 0 - 1, max_k_distance |-> 0, earliest_access |-> now],
         order, frames).victim_id

\* the orders in which the scan may meet the frames of the map
Orders(S) == {o \in [1..Cardinality(S) -> S] : \A i, j \in 1..Cardinality(S) : o[i] = o[j] => i = j}

Without(f, x) == [y \in (DOMAIN f) \ {x} |-> f[y]]
With(f, x, v) == [y \in (DOMAIN f) \cup {x} |-> IF y = x THEN v ELSE f[y]]

Evictable(frames) == {f \in DOMAIN frames : frames[f].is_evictable_}

\* what a call reports: its argument (Evict: the victim), its outcome, and the Frame
\* it erased (<<>> when it erased none)
RPRet(op, fid, ok, err, erased) ==
    [op |-> op, fid |-> fid, ok |-> ok, err |-> err, erased |-> erased]

\* RecordAccess, lines 270-283, on the replacer's fields
RecordAccessCall(frame_id) ==
    IF InvalidFrame(frame_id)
    THEN /\ rp_ret' = RPRet("RecordAccess", frame_id, FALSE, "InvalidFrame", <<>>)
         /\ UNCHANGED <<k_, frames_, current_timestamp_, curr_size_>>
    ELSE /\ current_timestamp_ < MaxTime
         /\ LET frame == IF frame_id \in Tracked THEN frames_[frame_id] ELSE NewFrame
            IN  frames_' = With(frames_, frame_id, Accessed(frame, k_, current_timestamp_))
         /\ current_timestamp_' = SizeInc(current_timestamp_)
         /\ rp_ret' = RPRet("RecordAccess", frame_id, TRUE, "", <<>>)
         /\ UNCHANGED <<k_, curr_size_>>

RecordAccess(frame_id) ==
    /\ RecordAccessCall(frame_id)
    /\ UNCHANGED <<htvars, thvars>>

\* SetEvictable, lines 289-301, on the replacer's fields
SetEvictableCall(frame_id, set_evictable) ==
    IF InvalidFrame(frame_id)
    THEN /\ rp_ret' = RPRet("SetEvictable", frame_id, FALSE, "InvalidFrame", <<>>)
         /\ UNCHANGED <<k_, frames_, current_timestamp_, curr_size_>>
    ELSE IF frame_id \notin Tracked
    THEN /\ rp_ret' = RPRet("SetEvictable", frame_id, TRUE, "", <<>>)
         /\ UNCHANGED <<k_, frames_, current_timestamp_, curr_size_>>
    ELSE /\ IF frames_[frame_id].is_evictable_ # set_evictable
            THEN /\ frames_' = [frames_ EXCEPT ![frame_id].is_evictable_ = set_evictable]
                 /\ curr_size_' = IF set_evictable THEN SizeInc(curr_size_)
                                  ELSE SizeDec(curr_size_)
            ELSE UNCHANGED <<frames_, curr_size_>>
         /\ rp_ret' = RPRet("SetEvictable", frame_id, TRUE, "", <<>>)
         /\ UNCHANGED <<k_, current_timestamp_>>

SetEvictable(frame_id, set_evictable) ==
    /\ SetEvictableCall(frame_id, set_evictable)
    /\ UNCHANGED <<htvars, thvars>>

\* Remove without the is_evictable_ test
RemoveCallUnchecked(frame_id) ==
    IF frame_id \notin Tracked
    THEN /\ rp_ret' = RPRet("Remove", frame_id, TRUE, "", <<>>)
         /\ UNCHANGED <<k_, frames_, current_timestamp_, curr_size_>>
    ELSE /\ frames_' = Without(frames_, frame_id)
         /\ curr_size_' = SizeDec(curr_size_)
         /\ rp_ret' = RPRet("Remove", frame_id, TRUE, "", <<frames_[frame_id]>>)
         /\ UNCHANGED <<k_, current_timestamp_>>

\* Remove, lines 307-317, on the replacer's fields
RemoveCall(frame_id) ==
    IF frame_id \notin Tracked
    THEN /\ rp_ret' = RPRet("Remove", frame_id, TRUE, "", <<>>)
         /\ UNCHANGED <<k_, frames_, current_timestamp_, curr_size_>>
    ELSE IF ~frames_[frame_id].is_evictable_
    THEN /\ rp_ret' = RPRet("Remove", frame_id, FALSE, "NotEvictable", <<>>)
         /\ UNCHANGED <<k_, frames_, current_timestamp_, curr_size_>>
    ELSE /\ frames_' = Without(frames_, frame_id)
         /\ curr_size_' = SizeDec(curr_size_)
         /\ rp_ret' = RPRet("Remove", frame_id, TRUE, "", <<frames_[frame_id]>>)
         /\ UNCHANGED <<k_, current_timestamp_>>

RemoveFrame(frame_id) ==
    /\ RemoveCall(frame_id)
    /\ UNCHANGED <<htvars, thvars>>

\* Evict, lines 231-264, on the replacer's fields, the scan meeting the frames in order
EvictCall(order) ==
    IF curr_size_ = 0
    THEN /\ rp_ret' = RPRet("Evict", 0 - 1, FALSE, "", <<>>)
         /\ UNCHANGED <<k_, frames_, current_timestamp_, curr_size_>>
    ELSE LET victim_id == Victim(frames_, current_timestamp_, order)
         IN  IF victim_id # 0 - 1
             THEN /\ frames_' = Without(frames_, victim_id)
                  /\ curr_size_' = SizeDec(curr_size_)
                  /\ rp_ret' = RPRet("Evict", victim_id, TRUE, "", <<frames_[victim_id]>>)
                  /\ UNCHANGED <<k_, current_timestamp_>>
             ELSE /\ rp_ret' = RPRet("Evict", 0 - 1, FALSE, "", <<>>)
                  /\ UNCHANGED <<k_, frames_, current_timestamp_, curr_size_>>

Evict(order) ==
    /\ EvictCall(order)
    /\ UNCHANGED <<htvars, thvars>>

\* Size only reads: it returns curr_size_ of the state it runs in
Size ==
    /\ curr_size_ \in 0..SizeMax
    /\ UNCHANGED vars

\* ------------------------------------------------------------ specifications
\* The hash table as constructed (lines 25-28) for some bucket size; the replacer idle.
InitHT ==
    /\ bucket_size_ \in 1..MaxBucketSize
    /\ global_depth_ = InitGlobalDepth
    /\ num_buckets_ = InitNumBuckets
    /\ dir_ = <<1>>
    /\ buckets = <<NewBucket(0)>>
    /\ shadow = [key \in Keys |-> None]
    /\ ht_ret = [op |-> "new", present |-> FALSE, full |-> FALSE,
                 splits |-> 0, doublings |-> 0]
    /\ k_ = 1
    /\ frames_ = <<>>
    /\ current_timestamp_ = InitTimestamp
    /\ curr_size_ = InitCurrSize
    /\ rp_ret = RPRet("new", 0 - 1, TRUE, "", <<>>)
    /\ pc = <<>>
    /\ loc = <<>>
    /\ latch_ = {}
    /\ th_ret = <<>>
    /\ ser = <<>>
    /\ access_log = <<>>

NextHT ==
    \/ \E key \in Keys, value \in Vals : Insert(key, value)
    \/ \E key \in Keys : Find(key)
    \/ \E key \in Keys : Remove(key)
    \/ GetGlobalDepth
    \/ \E dir_index \in 0..(Len(dir_) - 1) : GetLocalDepth(dir_index)
    \/ GetNumBuckets

\* the hash table alone, one public call per step
SpecHT == InitHT /\ [][NextHT]_vars

\* The calls that write the table. Find and the three getters read under the lock and
\* leave every field as it is, so the tables reached are those of SpecHT.
NextHTWrite ==
    \/ \E key \in Keys, value \in Vals : Insert(key, value)
    \/ \E key \in Keys : Remove(key)

\* the hash table after any sequence of Insert and Remove calls
SpecHTWrite == InitHT /\ [][NextHTWrite]_vars

\* The replacer as constructed (line 226) for some k; the hash table idle.
InitRP ==
    /\ bucket_size_ = 1
    /\ global_depth_ = InitGlobalDepth
    /\ num_buckets_ = InitNumBuckets
    /\ dir_ = <<1>>
    /\ buckets = <<NewBucket(0)>>
    /\ shadow = [key \in Keys |-> None]
    /\ ht_ret = [op |-> "new", present |-> FALSE, full |-> FALSE,
                 splits |-> 0, doublings |-> 0]
    /\ k_ \in 1..MaxK
    /\ frames_ = <<>>
    /\ current_timestamp_ = InitTimestamp
    /\ curr_size_ = InitCurrSize
    /\ rp_ret = RPRet("new", 0 - 1, TRUE, "", <<>>)
    /\ pc = <<>>
    /\ loc = <<>>
    /\ latch_ = {}
    /\ th_ret = <<>>
    /\ ser = <<>>
    /\ access_log = <<>>

NextRP ==
    \/ \E frame_id \in FrameArgs : RecordAccess(frame_id)
    \/ \E frame_id \in FrameArgs, set_evictable \in BOOLEAN : SetEvictable(frame_id, set_evictable)
    \/ \E frame_id \in FrameArgs : RemoveFrame(frame_id)
    \/ \E order \in Orders(Tracked) : Evict(order)
    \/ Size

\* the replacer alone, one public call per step
SpecRP == InitRP /\ [][NextRP]_vars

\* ------------------------------------------- hash table, threads and the mutex
NumThreads == 2
MaxConcKey == 1

Threads == 1..NumThreads
ConcKeys == 0..MaxConcKey

\* a lock that never blocks
LatchFreeAlways == TRUE

\* std::scoped_lock<std::mutex> lock(latch_) blocks while another thread holds the mutex
LatchFree == latch_ = {}

NoLocals == [op |-> "", key |-> None, value |-> None, index |-> 0, target |-> 0,
             local_depth |-> 0, new_bucket |-> 0, expect |-> None]

\* a thread passes the scoped_lock of the call it made; the serial execution makes
\* the whole call at this point
Enter(t, at, op, key, value, expect, after) ==
    /\ pc[t] = "lock"
    /\ LatchFree
    /\ latch_' = latch_ \cup {t}
    /\ pc' = [pc EXCEPT ![t] = at]
    /\ loc' = [loc EXCEPT ![t] = [NoLocals EXCEPT !.op = op, !.key = key,
                                                  !.value = value, !.expect = expect]]
    /\ ser' = after

\* the call returns: the scoped_lock is released
Leave(t, ret) ==
    /\ latch_' = latch_ \ {t}
    /\ pc' = [pc EXCEPT ![t] = "lock"]
    /\ loc' = [loc EXCEPT ![t] = NoLocals]
    /\ th_ret' = [op |-> loc[t].op, ret |-> ret, expect |-> loc[t].expect]
    /\ UNCHANGED ser

Goto(t, at) ==
    /\ pc' = [pc EXCEPT ![t] = at]
    /\ UNCHANGED <<latch_, th_ret, ser>>

\* line 85
EnterInsert(t, key, value) ==
    /\ Enter(t, "insert_try", "Insert", key, value, None,
             InsertLoop(ser, key, value, bucket_size_))
    /\ UNCHANGED <<htvars, rpvars, th_ret, access_log>>

\* lines 87-92
InsertTry(t) ==
    /\ pc[t] = "insert_try"
    /\ LET index == IndexOf(loc[t].key, global_depth_)
           target == dir_[index + 1]
           r == BucketInsert(buckets[target].list_, loc[t].key, loc[t].value, bucket_size_)
       IN  IF r.ok
           THEN /\ buckets' = [buckets EXCEPT ![target].list_ = r.list]
                /\ Leave(t, None)
           ELSE /\ loc' = [loc EXCEPT ![t].index = index, ![t].target = target]
                /\ Goto(t, "insert_double")
                /\ UNCHANGED buckets
    /\ UNCHANGED <<bucket_size_, global_depth_, num_buckets_, dir_, shadow, ht_ret,
                   rpvars, access_log>>

\* lines 95-103
InsertDouble(t) ==
    /\ pc[t] = "insert_double"
    /\ SetTable(IF NeedsDoubling(Table, loc[t].target) THEN DoubleDirectory(Table) ELSE Table)
    /\ Goto(t, "insert_split")
    /\ UNCHANGED <<bucket_size_, shadow, ht_ret, rpvars, loc, access_log>>

\* lines 106-108
InsertSplit(t) ==
    /\ pc[t] = "insert_split"
    /\ SetTable(SplitBucket(Table, loc[t].target))
    /\ loc' = [loc EXCEPT ![t].local_depth = buckets[loc[t].target].depth_,
                          ![t].new_bucket = Len(buckets) + 1]
    /\ Goto(t, "insert_dir")
    /\ UNCHANGED <<bucket_size_, shadow, ht_ret, rpvars, access_log>>

\* lines 111-117
InsertDirectory(t) ==
    /\ pc[t] = "insert_dir"
    /\ SetTable(RedistributeDirectory(Table, loc[t].index, loc[t].local_depth,
                                      loc[t].target, loc[t].new_bucket))
    /\ Goto(t, "insert_items")
    /\ UNCHANGED <<bucket_size_, shadow, ht_ret, rpvars, loc, access_log>>

\* lines 120-131
InsertItems(t) ==
    /\ pc[t] = "insert_items"
    /\ SetTable(RedistributeItems(Table, loc[t].target, loc[t].new_bucket, bucket_size_))
    /\ Goto(t, "insert_count")
    /\ UNCHANGED <<bucket_size_, shadow, ht_ret, rpvars, loc, access_log>>

\* line 132, and back to the head of the loop
InsertCount(t) ==
    /\ pc[t] = "insert_count"
    /\ SetTable(IncrementNumBuckets(Table))
    /\ Goto(t, "insert_try")
    /\ UNCHANGED <<bucket_size_, shadow, ht_ret, rpvars, loc, access_log>>

\* line 71
EnterFind(t, key) ==
    /\ Enter(t, "find", "Find", key, None, TableFind(ser, key), ser)
    /\ UNCHANGED <<htvars, rpvars, th_ret, access_log>>

\* lines 72-73
FindBody(t) ==
    /\ pc[t] = "find"
    /\ Leave(t, TableFind(Table, loc[t].key))
    /\ UNCHANGED <<htvars, rpvars, access_log>>

\* line 78
EnterRemove(t, key) ==
    /\ Enter(t, "remove", "Remove", key, None, TableRemove(ser, key).ok,
             TableRemove(ser, key).table)
    /\ UNCHANGED <<htvars, rpvars, th_ret, access_log>>

\* lines 79-80
RemoveBody(t) ==
    /\ pc[t] = "remove"
    /\ SetTable(TableRemove(Table, loc[t].key).table)
    /\ Leave(t, TableRemove(Table, loc[t].key).ok)
    /\ UNCHANGED <<bucket_size_, shadow, ht_ret, rpvars, access_log>>

\* line 38
EnterGetGlobalDepth(t) ==
    /\ Enter(t, "global_depth", "GetGlobalDepth", None, None,
             GetGlobalDepthInternal(ser), ser)
    /\ UNCHANGED <<htvars, rpvars, th_ret, access_log>>

\* line 39
GetGlobalDepthBody(t) ==
    /\ pc[t] = "global_depth"
    /\ Leave(t, GetGlobalDepthInternal(Table))
    /\ UNCHANGED <<htvars, rpvars, access_log>>

\* line 49; the caller passes a slot of the directory it last saw complete
EnterGetLocalDepth(t, dir_index) ==
    /\ Enter(t, "local_depth", "GetLocalDepth", dir_index, None,
             GetLocalDepthInternal(ser, dir_index), ser)
    /\ UNCHANGED <<htvars, rpvars, th_ret, access_log>>

\* line 50
GetLocalDepthBody(t) ==
    /\ pc[t] = "local_depth"
    /\ Leave(t, GetLocalDepthInternal(Table, loc[t].key))
    /\ UNCHANGED <<htvars, rpvars, access_log>>

\* line 60
EnterGetNumBuckets(t) ==
    /\ Enter(t, "num_buckets", "GetNumBuckets", None, None,
             GetNumBucketsInternal(ser), ser)
    /\ UNCHANGED <<htvars, rpvars, th_ret, access_log>>

\* line 61
GetNumBucketsBody(t) ==
    /\ pc[t] = "num_buckets"
    /\ Leave(t, GetNumBucketsInternal(Table))
    /\ UNCHANGED <<htvars, rpvars, access_log>>

\* One table of bucket size 1, every thread at the scoped_lock of its next call.
InitHTConc ==
    /\ bucket_size_ = 1
    /\ global_depth_ = InitGlobalDepth
    /\ num_buckets_ = InitNumBuckets
    /\ dir_ = <<1>>
    /\ buckets = <<NewBucket(0)>>
    /\ shadow = [key \in Keys |-> None]
    /\ ht_ret = [op |-> "new", present |-> FALSE, full |-> FALSE,
                 splits |-> 0, doublings |-> 0]
    /\ k_ = 1
    /\ frames_ = <<>>
    /\ current_timestamp_ = InitTimestamp
    /\ curr_size_ = InitCurrSize
    /\ rp_ret = RPRet("new", 0 - 1, TRUE, "", <<>>)
    /\ pc = [t \in Threads |-> "lock"]
    /\ loc = [t \in Threads |-> NoLocals]
    /\ latch_ = {}
    /\ th_ret = [op |-> "new", ret |-> None, expect |-> None]
    /\ ser = [global_depth_ |-> InitGlobalDepth, num_buckets_ |-> InitNumBuckets,
              dir_ |-> <<1>>, buckets |-> <<NewBucket(0)>>]
    /\ access_log = <<>>

NextHTConc ==
    \/ \E t \in Threads, key \in ConcKeys, value \in Vals : EnterInsert(t, key, value)
    \/ \E t \in Threads : InsertTry(t)
    \/ \E t \in Threads : InsertDouble(t)
    \/ \E t \in Threads : InsertSplit(t)
    \/ \E t \in Threads : InsertDirectory(t)
    \/ \E t \in Threads : InsertItems(t)
    \/ \E t \in Threads : InsertCount(t)
    \/ \E t \in Threads, key \in ConcKeys : EnterFind(t, key)
    \/ \E t \in Threads : FindBody(t)
    \/ \E t \in Threads, key \in ConcKeys : EnterRemove(t, key)
    \/ \E t \in Threads : RemoveBody(t)
    \/ \E t \in Threads : EnterGetGlobalDepth(t)
    \/ \E t \in Threads : GetGlobalDepthBody(t)
    \/ \E t \in Threads, dir_index \in 0..(Len(ser.dir_) - 1) : EnterGetLocalDepth(t, dir_index)
    \/ \E t \in Threads : GetLocalDepthBody(t)
    \/ \E t \in Threads : EnterGetNumBuckets(t)
    \/ \E t \in Threads : GetNumBucketsBody(t)

\* the hash table under concurrent callers, one statement group per step
SpecHTConc == InitHTConc /\ [][NextHTConc]_vars

\* ---------------------------------------------- replacer, threads and the mutex
\* a thread passes the scoped_lock of the replacer call it made
EnterRP(t, at, op, frame_id, flag) ==
    /\ pc[t] = "lock"
    /\ LatchFree
    /\ latch_' = latch_ \cup {t}
    /\ pc' = [pc EXCEPT ![t] = at]
    /\ loc' = [loc EXCEPT ![t] = [NoLocals EXCEPT !.op = op, !.key = frame_id, !.value = flag]]
    /\ UNCHANGED <<htvars, rpvars, th_ret, ser, access_log>>

\* the call returns or throws: the scoped_lock is released
LeaveRP(t) ==
    /\ latch_' = latch_ \ {t}
    /\ pc' = [pc EXCEPT ![t] = "lock"]
    /\ loc' = [loc EXCEPT ![t] = NoLocals]
    /\ UNCHANGED <<th_ret, ser>>

\* the accesses recorded by concurrent callers in one behaviour
MaxConcTime == 2

\* line 268
EnterRecordAccess(t, frame_id) ==
    /\ Len(access_log) < MaxConcTime
    /\ EnterRP(t, "access_check", "RecordAccess", frame_id, FALSE)

\* lines 270-272
RecordAccessCheck(t) ==
    /\ pc[t] = "access_check"
    /\ IF InvalidFrame(loc[t].key)
       THEN /\ rp_ret' = RPRet("RecordAccess", loc[t].key, FALSE, "InvalidFrame", <<>>)
            /\ LeaveRP(t)
       ELSE /\ Goto(t, "access_push")
            /\ UNCHANGED <<rp_ret, loc>>
    /\ UNCHANGED <<htvars, k_, frames_, current_timestamp_, curr_size_, access_log>>

\* lines 274-280
RecordAccessPush(t) ==
    /\ pc[t] = "access_push"
    /\ LET frame_id == loc[t].key
           frame == IF frame_id \in Tracked THEN frames_[frame_id] ELSE NewFrame
       IN  frames_' = With(frames_, frame_id, Pushed(frame, k_, current_timestamp_))
    /\ access_log' = Append(access_log, current_timestamp_)
    /\ Goto(t, "access_update")
    /\ UNCHANGED <<htvars, k_, current_timestamp_, curr_size_, rp_ret, loc>>

\* line 282
RecordAccessUpdate(t) ==
    /\ pc[t] = "access_update"
    /\ frames_' = [frames_ EXCEPT ![loc[t].key] =
                        UpdateKDistance(frames_[loc[t].key], k_, current_timestamp_)]
    /\ Goto(t, "access_tick")
    /\ UNCHANGED <<htvars, k_, current_timestamp_, curr_size_, rp_ret, loc, access_log>>

\* line 283
RecordAccessTick(t) ==
    /\ pc[t] = "access_tick"
    /\ current_timestamp_' = SizeInc(current_timestamp_)
    /\ rp_ret' = RPRet("RecordAccess", loc[t].key, TRUE, "", <<>>)
    /\ LeaveRP(t)
    /\ UNCHANGED <<htvars, k_, frames_, curr_size_, access_log>>

\* line 287
EnterSetEvictable(t, frame_id, set_evictable) ==
    EnterRP(t, "set_evictable", "SetEvictable", frame_id, set_evictable)

\* lines 289-301
SetEvictableBody(t) ==
    /\ pc[t] = "set_evictable"
    /\ SetEvictableCall(loc[t].key, loc[t].value)
    /\ LeaveRP(t)
    /\ UNCHANGED <<htvars, access_log>>

\* line 305
EnterRemoveFrame(t, frame_id) ==
    EnterRP(t, "remove_frame", "Remove", frame_id, FALSE)

\* lines 307-317
RemoveFrameBody(t) ==
    /\ pc[t] = "remove_frame"
    /\ RemoveCall(loc[t].key)
    /\ LeaveRP(t)
    /\ UNCHANGED <<htvars, access_log>>

\* line 229
EnterEvict(t) ==
    EnterRP(t, "evict", "Evict", 0, FALSE)

\* lines 231-264
EvictBody(t, order) ==
    /\ pc[t] = "evict"
    /\ EvictCall(order)
    /\ LeaveRP(t)
    /\ UNCHANGED <<htvars, access_log>>

\* One replacer for some k, every thread at the scoped_lock of its next call.
InitRPConc ==
    /\ bucket_size_ = 1
    /\ global_depth_ = InitGlobalDepth
    /\ num_buckets_ = InitNumBuckets
    /\ dir_ = <<1>>
    /\ buckets = <<NewBucket(0)>>
    /\ shadow = [key \in Keys |-> None]
    /\ ht_ret = [op |-> "new", present |-> FALSE, full |-> FALSE,
                 splits |-> 0, doublings |-> 0]
    /\ k_ \in 1..MaxK
    /\ frames_ = <<>>
    /\ current_timestamp_ = InitTimestamp
    /\ curr_size_ = InitCurrSize
    /\ rp_ret = RPRet("new", 0 - 1, TRUE, "", <<>>)
    /\ pc = [t \in Threads |-> "lock"]
    /\ loc = [t \in Threads |-> NoLocals]
    /\ latch_ = {}
    /\ th_ret = <<>>
    /\ ser = <<>>
    /\ access_log = <<>>

NextRPConc ==
    \/ \E t \in Threads, frame_id \in FrameArgs : EnterRecordAccess(t, frame_id)
    \/ \E t \in Threads : RecordAccessCheck(t)
    \/ \E t \in Threads : RecordAccessPush(t)
    \/ \E t \in Threads : RecordAccessUpdate(t)
    \/ \E t \in Threads : RecordAccessTick(t)
    \/ \E t \in Threads, frame_id \in FrameArgs, set_evictable \in BOOLEAN :
          EnterSetEvictable(t, frame_id, set_evictable)
    \/ \E t \in Threads : SetEvictableBody(t)
    \/ \E t \in Threads, frame_id \in FrameArgs : EnterRemoveFrame(t, frame_id)
    \/ \E t \in Threads : RemoveFrameBody(t)
    \/ \E t \in Threads : EnterEvict(t)
    \/ \E t \in Threads, order \in Orders(Tracked) : EvictBody(t, order)

\* the replacer under concurrent callers, one statement group per step
SpecRPConc == InitRPConc /\ [][NextRPConc]_vars

\* ------------------------------------------------------------------ claims
Present == {key \in Keys : shadow[key] # None}

RECURSIVE SumLen(_, _)
SumLen(bs, n) == IF n = 0 THEN 0 ELSE Len(bs[n].list_) + SumLen(bs, n - 1)

\* the number of pairs held by all bucket objects together
StoredPairs == SumLen(buckets, Len(buckets))

DirBuckets == {dir_[s] : s \in DOMAIN dir_}

\* C1: after any sequence of Insert and Remove, Find(k) yields the value of the last
\* Insert of k for every key inserted and not removed since, and nothing for every
\* other key; the buckets hold exactly one pair per such key (a split loses,
\* duplicates or changes none).
C1_FindIsLastInsert ==
    /\ \A key \in Keys : TableFind(Table, key) = shadow[key]
    /\ StoredPairs = Cardinality(Present)

\* an Insert that split a bucket without doubling the directory, three keys stored
C1_Witness ==
    /\ ht_ret.op = "Insert"
    /\ ht_ret.splits >= 1
    /\ ht_ret.doublings = 0
    /\ Cardinality(Present) >= 3

\* the backward k-distance of the claim: infinite (SizeMax) below k accesses, else the
\* age of the k-th most recent access
KDistance(frame, k, now) ==
    IF Len(frame.history_) < k THEN SizeMax
    ELSE now - frame.history_[Len(frame.history_) - k + 1]

\* C2: a frame Evict returns was evictable when Evict was called, no evictable frame
\* had a larger backward k-distance, and none with that distance had a smaller
\* history[0]; for every k and every order of the scan.
C2_EvictPolicy ==
    [][(rp_ret'.op = "Evict" /\ rp_ret'.ok) =>
        LET fid == rp_ret'.fid
            D(f) == KDistance(frames_[f], k_, current_timestamp_)
        IN  /\ fid \in Evictable(frames_)
            /\ \A f \in Evictable(frames_) :
                /\ D(f) <= D(fid)
                /\ D(f) = D(fid) => Head(frames_[fid].history_) <= Head(frames_[f].history_)
      ]_vars

\* an Evict that broke a tie between two frames of infinite distance
C2_Witness ==
    /\ rp_ret.op = "Evict"
    /\ rp_ret.ok
    /\ Len(rp_ret.erased[1].history_) < k_
    /\ \E f \in Evictable(frames_) : Len(frames_[f].history_) < k_

\* C3: Size() is the number of tracked frames whose is_evictable_ is set, in every
\* state, also after calls that failed; it never wraps below zero.
C3_SizeIsEvictableCount ==
    curr_size_ = Cardinality(Evictable(frames_))

\* a failed Remove after an eviction, one evictable frame left
C3_Witness ==
    /\ rp_ret.op = "Remove"
    /\ rp_ret.err = "NotEvictable"
    /\ curr_size_ = 1
    /\ Cardinality(Tracked) >= 2

\* the keys of a bucket's pairs, in list order
KeysOf(list) == [i \in 1..Len(list) |-> list[i][1]]

\* C4: an Insert of a key already present replaces its value in place: global depth,
\* local depths, the directory, num_buckets_ and every other key's pair stay as
\* they were, also when the key's bucket is full.
C4_OverwriteInPlace ==
    \A key \in Keys, value \in Vals : TableFind(Table, key) # None =>
        LET t == InsertLoop(Table, key, value, bucket_size_)
        IN  /\ t.global_depth_ = global_depth_
            /\ t.num_buckets_ = num_buckets_
            /\ t.dir_ = dir_
            /\ Len(t.buckets) = Len(buckets)
            /\ \A b \in 1..Len(buckets) :
                /\ t.buckets[b].depth_ = buckets[b].depth_
                /\ KeysOf(t.buckets[b].list_) = KeysOf(buckets[b].list_)
            /\ \A other \in Keys \ {key} : TableFind(t, other) = TableFind(Table, other)
            /\ TableFind(t, key) = value

\* an overwrite in a full bucket that holds another key as well
C4_Witness ==
    /\ ht_ret.op = "Insert"
    /\ ht_ret.present
    /\ ht_ret.full
    /\ bucket_size_ >= 2

\* C5: RecordAccess and SetEvictable with a frame id >= replacer_size_ fail with
\* InvalidFrame and change nothing: no record, no history, not the timestamp, not
\* the size.
C5_InvalidFrameNoEffect ==
    [][(rp_ret'.op \in {"RecordAccess", "SetEvictable"} /\ rp_ret'.fid >= replacer_size_) =>
        /\ rp_ret'.err = "InvalidFrame"
        /\ UNCHANGED <<frames_, current_timestamp_, curr_size_>>
      ]_vars

\* a rejected call on a replacer that tracks frames
C5_Witness ==
    /\ rp_ret.err = "InvalidFrame"
    /\ rp_ret.fid >= replacer_size_
    /\ Tracked # {}
    /\ curr_size_ >= 1

\* C6: Remove of a tracked frame that is not evictable fails with NotEvictable and
\* changes nothing; of an untracked id (also one >= replacer_size_) it does nothing
\* and reports no error; of a tracked evictable frame it erases the record and
\* lowers curr_size_ by one.
C6_RemoveCases ==
    [][(rp_ret'.op = "Remove") =>
        LET fid == rp_ret'.fid
        IN  IF fid \notin Tracked
            THEN /\ rp_ret'.err = ""
                 /\ UNCHANGED <<frames_, current_timestamp_, curr_size_>>
            ELSE IF ~frames_[fid].is_evictable_
            THEN /\ rp_ret'.err = "NotEvictable"
                 /\ UNCHANGED <<frames_, current_timestamp_, curr_size_>>
            ELSE /\ rp_ret'.err = ""
                 /\ frames_' = Without(frames_, fid)
                 /\ curr_size_' = curr_size_ - 1
                 /\ UNCHANGED current_timestamp_
      ]_vars

\* a Remove refused for a pinned frame while another frame is evictable
C6_Witness ==
    /\ rp_ret.op = "Remove"
    /\ rp_ret.err = "NotEvictable"
    /\ rp_ret.fid \in Tracked
    /\ curr_size_ >= 1

\* the keys the table's Insert would have to split for: absent, target bucket full
Refused(key) ==
    ~BucketInsert(buckets[TargetOf(Table, key)].list_, key, 1, bucket_size_).ok

\* C9: the directory has 2^global_depth_ slots and no slot's local depth exceeds the
\* global depth; a split doubles the directory exactly when the full target
\* bucket's local depth equals the global depth, the global depth then grows by
\* one and slot i+old_size refers to the bucket of slot i.
C9_DepthDiscipline ==
    /\ Len(dir_) = Pow2(global_depth_)
    /\ \A i \in 0..(Len(dir_) - 1) :
        GetLocalDepthInternal(Table, i) <= GetGlobalDepthInternal(Table)
    /\ ht_ret.doublings > 0 => (ht_ret.op = "Insert" /\ ~ht_ret.present /\ ht_ret.full)
    /\ \A key \in Keys : Refused(key) =>
        LET target == TargetOf(Table, key)
            t == SplitOnce(Table, key, bucket_size_)
            old_size == Len(dir_)
        IN  IF buckets[target].depth_ = global_depth_
            THEN /\ t.global_depth_ = global_depth_ + 1
                 /\ Len(t.dir_) = 2 * old_size
                 /\ \A i \in 1..old_size :
                     /\ DoubleDirectory(Table).dir_[i + old_size] = dir_[i]
                     /\ dir_[i] # target => t.dir_[i + old_size] = dir_[i]
            ELSE /\ t.global_depth_ = global_depth_
                 /\ Len(t.dir_) = old_size

\* an Insert that doubled the directory twice
C9_Witness ==
    /\ ht_ret.op = "Insert"
    /\ ht_ret.doublings >= 2
    /\ global_depth_ >= 2

\* C10: num_buckets_ is the number of distinct buckets the directory refers to (and
\* of bucket objects made: one at construction, one per split); Remove and an
\* Insert that meets its key or a free place leave it unchanged.
C10_NumBuckets ==
    /\ GetNumBucketsInternal(Table) = Cardinality(DirBuckets)
    /\ GetNumBucketsInternal(Table) = Len(buckets)
    /\ ht_ret.op = "Remove" => ht_ret.splits = 0
    /\ (ht_ret.op = "Insert" /\ (ht_ret.present \/ ~ht_ret.full)) => ht_ret.splits = 0

\* an Insert that split twice
C10_Witness ==
    /\ ht_ret.op = "Insert"
    /\ ht_ret.splits >= 2
    /\ num_buckets_ >= 3

ReadPcs == {"find", "global_depth", "local_depth", "num_buckets"}
SplitPcs == {"insert_double", "insert_split", "insert_dir", "insert_items", "insert_count"}

\* C7: every call of the hash table runs entirely while it holds the one mutex, so at
\* most one thread is inside a call; every call returns what it returns in the
\* serial execution ordered by mutex acquisition; and a Find, Remove or depth
\* query never runs while a split is in progress: the table it reads is the
\* table the serial execution has at that point.
C7_Linearizable ==
    /\ \A t \in Threads : (pc[t] # "lock") <=> (t \in latch_)
    /\ Cardinality(latch_) <= 1
    /\ th_ret.ret = th_ret.expect
    /\ latch_ = {} => Table = ser
    /\ \A t \in Threads :
        /\ pc[t] \in ReadPcs => Table = ser
        /\ pc[t] = "remove" => TableRemove(Table, loc[t].key).table = ser
        /\ pc[t] \in ReadPcs \cup {"remove"} => \A u \in Threads : pc[u] \notin SplitPcs

\* a Find has returned a stored value, and now one thread is between reassigning the
\* slots and moving the items of a split while another waits at the lock
C7_Witness ==
    /\ th_ret.op = "Find"
    /\ th_ret.ret # None
    /\ \E t, u \in Threads : pc[t] = "insert_items" /\ pc[u] = "lock"
    /\ \E key \in ConcKeys : TableFind(Table, key) # TableFind(ser, key)

\* the threads between pushing a timestamp and advancing the counter
MidAccess == {t \in Threads : pc[t] \in {"access_update", "access_tick"}}

StoredTimestamps ==
    {frames_[f].history_[i] : <<f, i>> \in
        {<<f, i>> \in Tracked \X (1..MaxK + 1) : i <= Len(frames_[f].history_)}}

\* C8: under any interleaving of concurrent calls, current_timestamp_ grows by one per
\* successful RecordAccess and by nothing else (it counts the accesses recorded),
\* no two recorded accesses carry the same timestamp, and once the access has
\* advanced the counter every timestamp in any history is below it.
C8_TimestampsUnique ==
    /\ current_timestamp_ + Cardinality(MidAccess) = Len(access_log)
    /\ \A i, j \in 1..Len(access_log) : access_log[i] = access_log[j] => i = j
    /\ \A ts \in StoredTimestamps :
        IF MidAccess = {} THEN ts < current_timestamp_ ELSE ts <= current_timestamp_

\* a second access of a frame is between its push and its tick while another thread
\* waits at the lock
C8_Witness ==
    /\ Len(access_log) >= 2
    /\ \E t, u \in Threads :
        /\ pc[t] = "access_update"
        /\ pc[u] = "lock"
        /\ Len(frames_[loc[t].key].history_) >= 2
    /\ curr_size_ >= 1

\* the directory slots (0-based) that refer to bucket b
SlotsOf(b) == {i \in 0..(Len(dir_) - 1) : dir_[i + 1] = b}

\* the low-order d bits of a slot index or hash
LowBits(i, d) == BitAnd(i, Pow2(d) - 1)

MinOf(a, b) == IF a <= b THEN a ELSE b

\* C11: every bucket of local depth d is referenced by exactly 2^(global_depth_ - d)
\* slots, and these are exactly the slots that agree with each other on their
\* low-order d bits; two slots that refer to different buckets never agree on
\* the low-order bits up to the smaller of the two local depths.
C11_DirectoryAliasing ==
    /\ \A b \in DirBuckets :
        LET d == buckets[b].depth_
        IN  /\ d <= global_depth_
            /\ Cardinality(SlotsOf(b)) = Pow2(global_depth_ - d)
            /\ \A i \in SlotsOf(b), j \in 0..(Len(dir_) - 1) :
                (j \in SlotsOf(b)) <=> (LowBits(i, d) = LowBits(j, d))
    /\ \A i, j \in 0..(Len(dir_) - 1) : dir_[i + 1] # dir_[j + 1] =>
        LET m == MinOf(buckets[dir_[i + 1]].depth_, buckets[dir_[j + 1]].depth_)
        IN  LowBits(i, m) # LowBits(j, m)

\* a directory of four slots after two splits of one Insert: one bucket is shared by
\* two slots, two others have one slot each
C11_Witness ==
    /\ global_depth_ = 2
    /\ \E b \in DirBuckets : buckets[b].depth_ = 1 /\ Cardinality(SlotsOf(b)) = 2
    /\ \E b \in DirBuckets : buckets[b].depth_ = 2 /\ buckets[b].list_ # <<>>
    /\ ht_ret.op = "Insert" /\ ht_ret.splits >= 2

\* C12: every pair (k, v) stored in a bucket B satisfies dir_[IndexOf(k)] = B: after a
\* split the items of the old bucket whose newly significant hash bit is 1 are
\* in the new bucket and the others stayed.
C12_LookupInvariant ==
    /\ \A b \in 1..Len(buckets) : \A i \in 1..Len(buckets[b].list_) :
        dir_[IndexOf(buckets[b].list_[i][1], global_depth_) + 1] = b
    /\ \A key \in Keys : Refused(key) =>
        LET target == TargetOf(Table, key)
            d == buckets[target].depth_
            t == SplitOnce(Table, key, bucket_size_)
            new_bucket == Len(t.buckets)
            Moves(it) == BitAnd(Hash(it[1]), Pow2(d)) # 0
        IN  /\ t.buckets[new_bucket].list_ = SelectSeq(buckets[target].list_, Moves)
            /\ t.buckets[target].list_ =
                  SelectSeq(buckets[target].list_, LAMBDA it : ~Moves(it))

\* a split of a bucket of two pairs has moved one to the new bucket and kept the other
C12_Witness ==
    /\ ht_ret.op = "Insert" /\ ht_ret.splits = 1
    /\ bucket_size_ = 2
    /\ buckets[Len(buckets)].list_ # <<>>
    /\ \E b \in 1..(Len(buckets) - 1) : Len(buckets[b].list_) = 2

\* the pairs held by all buckets of a table
PairsOf(t) == SumLen(t.buckets, Len(t.buckets))

\* C13: every bucket holds at most bucket_size_ pairs; the redistribution of a split
\* never gives the new bucket more than bucket_size_ pairs, and no pair is lost
\* because the new bucket refused it: a split pass keeps the number of pairs,
\* and the buckets hold one pair for every key inserted and not removed.
C13_Capacity ==
    /\ \A b \in 1..Len(buckets) : Len(buckets[b].list_) <= bucket_size_
    /\ \A key \in Keys : Refused(key) =>
        LET target == TargetOf(Table, key)
            t == SplitOnce(Table, key, bucket_size_)
        IN  /\ Len(t.buckets[Len(t.buckets)].list_) <= bucket_size_
            /\ Len(t.buckets[Len(t.buckets)].list_) + Len(t.buckets[target].list_)
                  = Len(buckets[target].list_)
    /\ PairsOf(Table) = Cardinality(Present)

\* a split has moved a full bucket's worth of pairs to the new bucket
C13_Witness ==
    /\ ht_ret.op = "Insert" /\ ht_ret.splits >= 1
    /\ bucket_size_ = 2
    /\ Len(buckets[Len(buckets)].list_) = 2

\* every place (bucket, position) where a pair with the key is stored
PlacesOf(key) ==
    {<<b, i>> \in (1..Len(buckets)) \X (1..MaxBucketSize + 1) :
        i <= Len(buckets[b].list_) /\ buckets[b].list_[i][1] = key}

\* C14: after any sequence of Insert and Remove calls no key is stored in more than
\* one bucket and no key is stored twice in one bucket.
C14_KeyUniqueness ==
    \A key \in Keys : Cardinality(PlacesOf(key)) <= 1

\* an Insert has overwritten a key in a bucket that had room, in a table of several
\* buckets
C14_Witness ==
    /\ ht_ret.op = "Insert" /\ ht_ret.present /\ ~ht_ret.full
    /\ num_buckets_ >= 2
    /\ \E key \in Keys : Cardinality(PlacesOf(key)) = 1

\* w: the width of the hash values of the keys, the least w with Hash(key) < 2^w
HashBits == CHOOSE w \in 0..(MaxKey + 1) :
    /\ \A key \in Keys : Hash(key) < Pow2(w)
    /\ \A v \in 0..(MaxKey + 1) : (\A key \in Keys : Hash(key) < Pow2(v)) => w <= v

\* C17: with bucket_size_ >= 1 and a hash that is injective on the keys and w bits
\* wide, every Insert returns after at most w passes of its loop that split,
\* with the key stored; every such pass makes exactly one split (one bucket
\* more); and global_depth_ never exceeds w. (The value inserted plays no part
\* in the loop's control flow: one value per key is tried.)
C17_InsertTerminates ==
    /\ bucket_size_ >= 1
    /\ \A k1, k2 \in Keys : Hash(k1) = Hash(k2) => k1 = k2
    /\ global_depth_ <= HashBits
    /\ \A key \in Keys :
        LET value == MaxVal
            r == InsertRun(Table, key, value, bucket_size_, HashBits)
        IN  /\ r.done
            /\ r.splits <= HashBits
            /\ r.table = InsertLoop(Table, key, value, bucket_size_)
            /\ TableFind(r.table, key) = value
            /\ r.table.num_buckets_ = num_buckets_ + r.splits
            /\ Len(r.table.buckets) = Len(buckets) + r.splits
            /\ r.table.global_depth_ <= HashBits
            /\ (r.splits > 0) <=> Refused(key)

\* an Insert that needed as many splits as the hash has bits
C17_Witness ==
    /\ ht_ret.op = "Insert" /\ ~ht_ret.present /\ ht_ret.full
    /\ ht_ret.splits = HashBits
    /\ global_depth_ = HashBits
    /\ HashBits >= 2

\* the last k entries of a sequence
LastK(h, k) == IF Len(h) <= k THEN h ELSE SubSeq(h, Len(h) - k + 1, Len(h))

HistoryOf(frames, f) == IF f \in DOMAIN frames THEN frames[f].history_ ELSE <<>>

\* C15: every tracked frame's history has between 1 and k_ entries, strictly
\* increasing with the oldest at the front; a RecordAccess gives its frame the
\* last k_ of (history so far, the current timestamp), starting from nothing
\* for a frame that is not tracked, and no other step changes or revives a
\* history: so the entries are the timestamps of the min(k_, n) most recent
\* accesses since the record was created.
C15_HistoryBound ==
    /\ [](\A f \in Tracked :
            LET h == frames_[f].history_
            IN  /\ 1 <= Len(h) /\ Len(h) <= k_
                /\ \A i, j \in 1..Len(h) : i < j => h[i] < h[j]
                /\ h[Len(h)] < current_timestamp_)
    /\ [][IF rp_ret'.op = "RecordAccess" /\ rp_ret'.ok
          THEN /\ DOMAIN frames_' = Tracked \cup {rp_ret'.fid}
               /\ \A f \in DOMAIN frames_' :
                    frames_'[f].history_ =
                        IF f = rp_ret'.fid
                        THEN LastK(Append(HistoryOf(frames_, f), current_timestamp_), k_)
                        ELSE frames_[f].history_
          ELSE /\ DOMAIN frames_' \subseteq Tracked
               /\ \A f \in DOMAIN frames_' : frames_'[f].history_ = frames_[f].history_
        ]_vars

\* a frame accessed more than k_ = 2 times in a row has lost its oldest timestamp
C15_Witness ==
    /\ k_ = 2
    /\ rp_ret.op = "RecordAccess" /\ rp_ret.ok
    /\ Tracked = {rp_ret.fid}
    /\ frames_[rp_ret.fid].history_ = <<current_timestamp_ - 2, current_timestamp_ - 1>>
    /\ current_timestamp_ >= 3

\* C16: whatever frame ids of the signed id type the calls are given, every tracked
\* frame id f satisfies 0 <= f < replacer_size_.
C16_FrameIdRange ==
    \A f \in Tracked : 0 <= f /\ f < replacer_size_

\* C18: for every frame Evict compares (tracked and evictable), the backward
\* k-distance it compares is current_timestamp_ minus the timestamp of the
\* frame's k-th most recent access when the frame has k accesses, and a value
\* above every finite distance otherwise.
C18_KDistanceValue ==
    \A f \in Evictable(frames_) :
        IF Len(frames_[f].history_) >= k_
        THEN frames_[f].k_distance_ =
                current_timestamp_ - frames_[f].history_[Len(frames_[f].history_) - k_ + 1]
        ELSE frames_[f].k_distance_ > current_timestamp_

\* C19: a successful RecordAccess(fid) leaves Size() as it was and changes no other
\* frame; on an untracked fid it creates a record that is not evictable and
\* whose history is the one new timestamp; on a tracked fid it keeps the
\* frame's evictable flag. A frame that Evict or Remove has just erased and
\* that is accessed again starts from that fresh record.
C19_AccessLifecycle ==
    [][(rp_ret'.op = "RecordAccess" /\ rp_ret'.ok) =>
        LET fid == rp_ret'.fid
        IN  /\ curr_size_' = curr_size_
            /\ DOMAIN frames_' = Tracked \cup {fid}
            /\ \A f \in Tracked \ {fid} : frames_'[f] = frames_[f]
            /\ IF fid \notin Tracked
               THEN /\ ~frames_'[fid].is_evictable_
                    /\ frames_'[fid].history_ = <<current_timestamp_>>
               ELSE frames_'[fid].is_evictable_ = frames_[fid].is_evictable_
            /\ (rp_ret.op \in {"Evict", "Remove"} /\ rp_ret.erased # <<>> /\ rp_ret.fid = fid) =>
                /\ ~frames_'[fid].is_evictable_
                /\ frames_'[fid].history_ = <<current_timestamp_>>
      ]_vars

\* a record created by an access after earlier records were erased, next to an
\* evictable frame
C19_Witness ==
    /\ k_ = 2
    /\ rp_ret.op = "RecordAccess" /\ rp_ret.ok
    /\ rp_ret.fid \in 0..(replacer_size_ - 1)
    /\ frames_[rp_ret.fid].history_ = <<2>>
    /\ ~frames_[rp_ret.fid].is_evictable_
    /\ Cardinality(Tracked) = 2
    /\ curr_size_ = 1

\* C20: Evict returns none exactly when no tracked frame is evictable; when Size() > 0
\* it returns a frame id, erases exactly that frame's record, lowers Size() by
\* one and changes no other frame.
C20_EvictAvailable ==
    [][(rp_ret'.op = "Evict") =>
        /\ (~rp_ret'.ok) <=> (Evictable(frames_) = {})
        /\ curr_size_ > 0 => rp_ret'.ok
        /\ rp_ret'.ok =>
            /\ rp_ret'.fid \in Evictable(frames_)
            /\ frames_' = Without(frames_, rp_ret'.fid)
            /\ curr_size_' = curr_size_ - 1
      ]_vars

====
